---- MODULE Spec2Model ----
(***************************************************************************)
(* Model of detector.py: a one-shot import of order rows from a spreadsheet *)
(* into the `Order` table of an SQLite store.                               *)
(*                                                                          *)
(* Python strings are sequences of one-character strings, so that strip,    *)
(* upper, startswith and strftime are computed rather than assumed.  A cell *)
(* of the data frame is a record [kind, s, n]: a str, a number, NaN (what   *)
(* read_excel yields for an absent cell) or None.                           *)
(***************************************************************************)
EXTENDS Integers, Sequences, FiniteSets, TLC

VARIABLES
    file,                  \* the spreadsheet at file_path: [exists, columns, rows]
    dbState,               \* the store at db_path: "ok", "unopenable", "notable", "busy"
    notNull,               \* columns of `Order` declared NOT NULL
    store,                 \* committed records of `Order`
    now,                   \* last reading of the UTC clock, seconds into the day
    runs,                  \* number of the current program run
    pc,                    \* stage of main in the current run
    columns,               \* df.columns once the unnamed columns are dropped
    df,                    \* the rows of df[expected_columns] once loaded
    batch,                 \* the frame load_and_clean_excel returned
    invalidCount,          \* len(invalid_rows), as logged
    error,                 \* the columns named by the KeyError message
    raised,                \* an exception left main
    conn,                  \* the sqlite3 connection: "none", "open", "closed"
    txn,                   \* the table as the open connection sees it
    i,                     \* position of the write loop in the batch
    successful_transfers,  \* list of order ids written
    failed_transfers,      \* dict: order id -> error
    summary,               \* the counts the final log lines report
    store0,                \* history: the store when this run started
    prevBatch,             \* history: the batch of the previous run
    prevWritten            \* history: the previous run completed its write stage

vars == <<file, dbState, notNull, store, now, runs, pc, columns, df, batch, invalidCount,
          error, raised, conn, txn, i, successful_transfers, failed_transfers,
          summary, store0, prevBatch, prevWritten>>

\* ---------------------------------------------------------------- bounds
MaxRows == 2
MaxRuns == 2

\* ----------------------------------------------------------------- cells
Str(chars) == [kind |-> "str", s |-> chars, n |-> 0]
Num(k) == [kind |-> "num", s |-> <<>>, n |-> k]
NaN == [kind |-> "nan", s |-> <<>>, n |-> 0]
None == [kind |-> "none", s |-> <<>>, n |-> 0]

isinstance_str(value) == value.kind = "str"
isna(value) == value.kind \in {"nan", "none"}

\* ------------------------------------------------------------- constants
expected_columns ==
    <<"order_id", "customer_name", "carta_id", "status", "width_of_carta", "shape_of_carta">>
ExpectedSet == {expected_columns[k] : k \in 1..Len(expected_columns)}
BatchColumns == ExpectedSet \cup {"updated_at"}
StoreColumns == BatchColumns \cup {"created_by", "updated_by"}
default_created_by == Str(<<"s", "y", "s", "t", "e", "m">>)
default_updated_by == Str(<<"s", "y", "s", "t", "e", "m">>)

\* ------------------------------------------------------- str operations
Whitespace == {" "}

RECURSIVE lstrip(_)
lstrip(s) == IF s # <<>> /\ Head(s) \in Whitespace THEN lstrip(Tail(s)) ELSE s

RECURSIVE rstrip(_)
rstrip(s) ==
    IF s # <<>> /\ s[Len(s)] \in Whitespace THEN rstrip(SubSeq(s, 1, Len(s) - 1)) ELSE s

strip(s) == rstrip(lstrip(s))

UpperChar(c) ==
    CASE c = "o" -> "O"
      [] c = "r" -> "R"
      [] c = "x" -> "X"
      [] OTHER -> c

upper(s) == [k \in 1..Len(s) |-> UpperChar(s[k])]

startswith(s, prefix) == Len(s) >= Len(prefix) /\ SubSeq(s, 1, Len(prefix)) = prefix

\* validate_order_id without the strip: a faulty variant.
validate_order_id_nostrip(order_id) ==
    IF ~isinstance_str(order_id) THEN FALSE
    ELSE startswith(upper(order_id.s), <<"O", "R">>)

validate_order_id(order_id) ==
    IF ~isinstance_str(order_id) THEN FALSE
    ELSE startswith(upper(strip(order_id.s)), <<"O", "R">>)

clean_value(value) ==
    IF isna(value) \/ value = Str(<<>>) \/ value = Str(<<" ">>) THEN None ELSE value

\* --------------------------------------------------------------- strftime
Digits == <<"0", "1", "2", "3", "4", "5", "6", "7", "8", "9">>
Digit(d) == Digits[d + 1]
Pad2(k) == <<Digit((k \div 10) % 10), Digit(k % 10)>>
DatePart == <<"2", "0", "2", "6", "-", "1", "1", "-", "0", "3">>

\* '%Y-%m-%d %H:%M:%S' of a time t seconds into the day.
strftime(t) ==
    DatePart \o <<" ">> \o Pad2((t \div 3600) % 24) \o <<":">>
        \o Pad2((t \div 60) % 60) \o <<":">> \o Pad2(t % 60)

\* ------------------------------------------------------------ environment
\* Column names a spreadsheet may carry besides the expected ones.
ExtraColumns == {"Unnamed: 0", "notes"}

OR1 == <<"O", "R", "1">>
or2 == <<" ", "o", "r", "2", " ">>
OR7 == <<"O", "R", "7">>
ValidIdCells == {Str(OR1), Str(or2)}
InvalidIdCells == {Str(<<"X", "O", "R">>), Num(7), NaN}

Filled ==
    [c \in ExpectedSet \ {"order_id"} |->
        CASE c = "customer_name" -> Str(<<"A", "l">>)
          [] c = "carta_id" -> Str(<<"C", "1">>)
          [] c = "status" -> Str(<<"n", "e", "w">>)
          [] c = "width_of_carta" -> Num(10)
          [] OTHER -> Str(<<"r", "o", "u", "n", "d">>)]
Changed ==
    [c \in ExpectedSet \ {"order_id"} |->
        CASE c = "customer_name" -> Str(<<"B", "o">>)
          [] c = "carta_id" -> Str(<<"C", "2">>)
          [] c = "status" -> Str(<<"d", "o", "n", "e">>)
          [] c = "width_of_carta" -> Num(12)
          [] OTHER -> Str(<<"o", "v", "a", "l">>)]
Blank ==
    [c \in ExpectedSet \ {"order_id"} |->
        CASE c = "customer_name" -> NaN
          [] c = "carta_id" -> Str(<<>>)
          [] c = "status" -> Str(<<" ">>)
          [] c = "width_of_carta" -> NaN
          [] OTHER -> Str(<<" ", " ">>)]

MkRow(id, rest) == [c \in ExpectedSet |-> IF c = "order_id" THEN id ELSE rest[c]]

SheetRows ==
    {MkRow(id, rest) : id \in ValidIdCells, rest \in {Filled, Changed, Blank}}
        \cup {MkRow(id, Filled) : id \in InvalidIdCells}

Sheets == UNION {[1..k -> SheetRows] : k \in 0..MaxRows}

\* A spreadsheet whose header lacks an expected column has no projection onto
\* expected_columns; its rows are never read and are left out.
Files ==
    {[exists |-> FALSE, columns |-> {}, rows |-> <<>>]}
        \cup {[exists |-> TRUE, columns |-> cols \cup extra, rows |-> <<>>] :
                cols \in (SUBSET ExpectedSet) \ {ExpectedSet},
                extra \in {{}, ExtraColumns}}
        \cup {[exists |-> TRUE, columns |-> ExpectedSet \cup extra, rows |-> rows] :
                extra \in {{}, ExtraColumns}, rows \in Sheets}

OldRecord(id, creator) ==
    [c \in StoreColumns |->
        CASE c = "order_id" -> Str(id)
          [] c = "customer_name" -> Str(<<"Z", "e", "d">>)
          [] c = "created_by" -> creator
          [] c = "updated_by" -> Str(<<"b", "o", "b">>)
          [] c = "updated_at" -> Str(strftime(0))
          [] OTHER -> None]

alice == Str(<<"a", "l", "i", "c", "e">>)

InitialStores ==
    { {},
      {OldRecord(OR1, alice), OldRecord(OR7, alice)},
      {OldRecord(OR1, None)} }

NoSummary == [kind |-> "none", succeeded |-> 0, failed |-> 0]

\* The process-local state of a fresh run of the script.
FreshRun ==
    /\ pc = "Start"
    /\ columns = {}
    /\ df = <<>>
    /\ batch = <<>>
    /\ invalidCount = 0
    /\ error = <<>>
    /\ raised = FALSE
    /\ conn = "none"
    /\ txn = {}
    /\ i = 0
    /\ successful_transfers = <<>>
    /\ failed_transfers = <<>>
    /\ summary = NoSummary

Init ==
    /\ file \in Files
    /\ dbState \in {"ok", "unopenable", "notable", "busy"}
    /\ notNull \in {{}, {"customer_name"}}
    /\ store \in InitialStores
    /\ dbState \in {"unopenable", "notable"} => store = {} /\ notNull = {}
    /\ now = 59
    /\ runs = 1
    /\ FreshRun
    /\ store0 = store
    /\ prevBatch = <<>>
    /\ prevWritten = FALSE

\* ------------------------------------------------------------------ main
MainStart ==
    /\ pc = "Start"
    /\ pc' = "FileCheck"
    /\ UNCHANGED <<file, dbState, notNull, store, now, runs, columns, df, batch, invalidCount,
                   error, raised, conn, txn, i, successful_transfers,
                   failed_transfers, summary, store0, prevBatch, prevWritten>>

\* A check of the path that always passes: a faulty variant.
isfile_always == TRUE

\* os.path.isfile(file_path)
isfile == file.exists

\* The spreadsheet is not there: log the error and return.
FileNotFound ==
    /\ pc = "FileCheck"
    /\ ~isfile
    /\ pc' = "AbortedFileNotFound"
    /\ UNCHANGED <<file, dbState, notNull, store, now, runs, columns, df, batch, invalidCount,
                   error, raised, conn, txn, i, successful_transfers,
                   failed_transfers, summary, store0, prevBatch, prevWritten>>

\* ------------------------------------------------- load_and_clean_excel
\* df.columns.str.contains('^Unnamed')
StartsWithUnnamed(col) == col \in {"Unnamed: 0"}

DropUnnamed(cols) == {c \in cols : ~StartsWithUnnamed(c)}

\* missing_cols that stops at the first absent column: a faulty variant.
missing_cols_first(cols) ==
    LET Absent(col) == col \notin cols
        all == SelectSeq(expected_columns, Absent)
    IN  IF all = <<>> THEN <<>> ELSE <<Head(all)>>

missing_cols(cols) ==
    LET Absent(col) == col \notin cols
    IN  SelectSeq(expected_columns, Absent)

all_present(cols) == \A k \in 1..Len(expected_columns) : expected_columns[k] \in cols

\* pd.read_excel and the drop of the unnamed columns.
ReadExcel ==
    /\ pc = "FileCheck"
    /\ isfile
    /\ columns' = DropUnnamed(file.columns)
    /\ df' = file.rows
    /\ pc' = "Loaded"
    /\ UNCHANGED <<file, dbState, notNull, store, now, runs, batch, invalidCount,
                   error, raised, conn, txn, i, successful_transfers,
                   failed_transfers, summary, store0, prevBatch, prevWritten>>

\* An expected column is absent: the KeyError names the absent ones and is
\* raised again by load_and_clean_excel and by main.
MissingColumns ==
    /\ pc = "Loaded"
    /\ ~all_present(columns)
    /\ error' = missing_cols(columns)
    /\ raised' = TRUE
    /\ pc' = "AbortedMissingColumns"
    /\ UNCHANGED <<file, dbState, notNull, store, now, runs, columns, df, batch,
                   invalidCount, conn, txn, i, successful_transfers,
                   failed_transfers, summary, store0, prevBatch, prevWritten>>

IsValidRow(row) == validate_order_id(row["order_id"])

\* Every column through clean_value, then the updated_at column.
CleanAndStamp(rows, t) ==
    [k \in 1..Len(rows) |->
        [c \in BatchColumns |->
            IF c = "updated_at" THEN Str(strftime(t)) ELSE clean_value(rows[k][c])]]

\* The mask of valid order ids, the filter, the cleaning and the timestamp.
\* The clock is read once; it does not run backwards between runs.
ValidateAndClean ==
    /\ pc = "Loaded"
    /\ all_present(columns)
    /\ \E t \in {now, now + 1} :
          LET df_filtered == SelectSeq(df, IsValidRow)
          IN  /\ now' = t
              /\ invalidCount' = Len(df) - Len(df_filtered)
              /\ batch' = IF df_filtered = <<>> THEN <<>> ELSE CleanAndStamp(df_filtered, t)
    /\ pc' = "Validated"
    /\ UNCHANGED <<file, dbState, notNull, store, runs, columns, df, error, raised, conn, txn,
                   i, successful_transfers, failed_transfers, summary, store0,
                   prevBatch, prevWritten>>

\* ------------------------------------------- insert_into_existing_table
\* df.empty that is never true: a faulty variant.
df_empty_never(frame) == FALSE

df_empty(frame) == frame = <<>>

\* An empty frame: log that there is nothing to insert and return.
WriterEmpty ==
    /\ pc = "Validated"
    /\ df_empty(batch)
    /\ summary' = [kind |-> "empty", succeeded |-> 0, failed |-> 0]
    /\ pc' = "EmptyBatchSkip"
    /\ UNCHANGED <<file, dbState, notNull, store, now, runs, columns, df, batch, invalidCount,
                   error, raised, conn, txn, i, successful_transfers,
                   failed_transfers, store0, prevBatch, prevWritten>>

\* sqlite3.connect, the foreign_keys pragma and the ALTER TABLE whose
\* OperationalError is swallowed.  A connect that fails leaves through the
\* outer handlers of insert_into_existing_table and of main.
WriterConnect ==
    /\ pc = "Validated"
    /\ ~df_empty(batch)
    /\ \/ /\ dbState = "unopenable"
          /\ raised' = TRUE
          /\ pc' = "AbortedStore"
          /\ UNCHANGED <<conn, txn, i>>
       \/ /\ dbState # "unopenable"
          /\ conn' = "open"
          /\ txn' = store
          /\ i' = 1
          /\ pc' = "Writing"
          /\ raised' = raised
    /\ UNCHANGED <<file, dbState, notNull, store, now, runs, columns, df, batch, invalidCount,
                   error, successful_transfers, failed_transfers, summary, store0,
                   prevBatch, prevWritten>>

\* (SELECT created_by FROM `Order` WHERE order_id = ?)
SelectCreatedBy(table, id) ==
    IF \E r \in table : r["order_id"] = id
    THEN (CHOOSE r \in table : r["order_id"] = id)["created_by"]
    ELSE None

\* COALESCE that ignores the record already stored: a faulty variant.
COALESCE_second(a, b) == b

COALESCE(a, b) == IF a # None THEN a ELSE b

\* The nine values bound to the statement.
NewRecord(table, row) ==
    [c \in StoreColumns |->
        CASE c = "order_id" -> row["order_id"]
          [] c = "created_by" ->
                COALESCE(SelectCreatedBy(table, row["order_id"]), default_created_by)
          [] c = "updated_by" -> default_updated_by
          [] c = "updated_at" -> row["updated_at"]
          [] OTHER -> clean_value(row[c])]

\* A plain INSERT into a table without the conflict clause: a faulty variant.
InsertOnly(table, rec) == table \cup {rec}

\* INSERT OR REPLACE: the record with the same primary key goes.
InsertOrReplace(table, rec) ==
    {r \in table : r["order_id"] # rec["order_id"]} \cup {rec}

\* The statement raises a DatabaseError: no `Order` table, or NULL bound to a
\* NOT NULL column.
RowFails(row) ==
    \/ dbState = "notable"
    \/ \E c \in notNull : clean_value(row[c]) = None

\* A failed row that ends the loop: a faulty variant.
AfterFailedRow_break(k) == Len(batch) + 1

\* except sqlite3.DatabaseError: ... continue
AfterFailedRow(k) == k + 1

\* failed_transfers[row['order_id']] = error_msg
DictSet(d, key, value) ==
    [x \in DOMAIN d \cup {key} |-> IF x = key THEN value ELSE d[x]]

\* One iteration of `for index, row in df.iterrows()`.
WriteRow ==
    /\ pc = "Writing"
    /\ i <= Len(batch)
    /\ LET row == batch[i]
       IN  \/ /\ RowFails(row)
              /\ failed_transfers' = DictSet(failed_transfers, row["order_id"], "DatabaseError")
              /\ i' = AfterFailedRow(i)
              /\ UNCHANGED <<txn, successful_transfers>>
           \/ /\ ~RowFails(row)
              /\ txn' = InsertOrReplace(txn, NewRecord(txn, row))
              /\ successful_transfers' = Append(successful_transfers, row["order_id"])
              /\ i' = i + 1
              /\ failed_transfers' = failed_transfers
    /\ UNCHANGED <<file, dbState, notNull, store, now, runs, pc, columns, df, batch,
                   invalidCount, error, raised, conn, summary, store0, prevBatch,
                   prevWritten>>

\* The end of the `with` block and of the function.  The connection's context
\* manager commits (or rolls back when the commit raises) and does not close;
\* nothing else in the script closes it.  On a normal return the interpreter
\* may or may not finalise the connection object; while an exception
\* propagates, the traceback keeps the frame and the connection alive.
WriterFinish ==
    /\ pc = "Writing"
    /\ i > Len(batch)
    /\ \/ /\ dbState = "busy"
          /\ txn' = store
          /\ raised' = TRUE
          /\ pc' = "AbortedStore"
          /\ UNCHANGED <<store, summary, conn>>
       \/ /\ dbState # "busy"
          /\ store' = txn
          /\ summary' = [kind |-> "counts",
                         succeeded |-> Len(successful_transfers),
                         failed |-> Cardinality(DOMAIN failed_transfers)]
          /\ conn' \in {"open", "closed"}
          /\ pc' = "Written"
          /\ UNCHANGED <<txn, raised>>
    /\ UNCHANGED <<file, dbState, notNull, now, runs, columns, df, batch, invalidCount, error,
                   i, successful_transfers, failed_transfers, store0, prevBatch,
                   prevWritten>>

\* insert_into_existing_table returned: main returns.
MainDone ==
    /\ pc \in {"Written", "EmptyBatchSkip"}
    /\ pc' = "Done"
    /\ UNCHANGED <<file, dbState, notNull, store, now, runs, columns, df, batch, invalidCount,
                   error, raised, conn, txn, i, successful_transfers,
                   failed_transfers, summary, store0, prevBatch, prevWritten>>

Terminal == {"Done", "AbortedFileNotFound", "AbortedMissingColumns", "AbortedStore"}

\* The script is started again, on the same spreadsheet and the same store.
Rerun ==
    /\ pc \in Terminal
    /\ runs < MaxRuns
    /\ runs' = runs + 1
    /\ store0' = store
    /\ prevBatch' = batch
    /\ prevWritten' = (summary.kind = "counts")
    /\ pc' = "Start"
    /\ columns' = {}
    /\ df' = <<>>
    /\ batch' = <<>>
    /\ invalidCount' = 0
    /\ error' = <<>>
    /\ raised' = FALSE
    /\ conn' = "none"
    /\ txn' = {}
    /\ i' = 0
    /\ successful_transfers' = <<>>
    /\ failed_transfers' = <<>>
    /\ summary' = NoSummary
    /\ UNCHANGED <<file, dbState, notNull, store, now>>

Next ==
    \/ MainStart
    \/ FileNotFound
    \/ ReadExcel
    \/ MissingColumns
    \/ ValidateAndClean
    \/ WriterEmpty
    \/ WriterConnect
    \/ WriteRow
    \/ WriterFinish
    \/ MainDone
    \/ Rerun

Spec == Init /\ [][Next]_vars

\* ------------------------------------------------------------ properties
system == Str(<<"s", "y", "s", "t", "e", "m">>)

WithId(table, id) == {r \in table : r["order_id"] = id}

\* The write stage ran to its end in this run and its batch is committed.
WriteStageEnded == pc \in {"Written", "Done"} /\ summary.kind = "counts"

\* C1: when one iteration of the write loop writes its row, the table then
\* holds exactly one record with the row's order_id; its six business fields
\* are the row's, its updated_by is 'system', its updated_at is the row's
\* timestamp, its created_by is the created_by of the record that had the
\* order_id before when there was one with a non-null created_by and 'system'
\* otherwise; the records with other order_ids are the same as before.
C1_UpsertRow ==
    [][(pc = "Writing" /\ Len(successful_transfers') = Len(successful_transfers) + 1) =>
        LET row == batch[i]
            id == row["order_id"]
            before == WithId(txn, id)
            after == WithId(txn', id)
        IN  /\ Cardinality(after) = 1
            /\ \A r \in after :
                  /\ \A c \in ExpectedSet : r[c] = row[c]
                  /\ r["updated_by"] = system
                  /\ r["updated_at"] = row["updated_at"]
                  /\ \A o \in before :
                        o["created_by"].kind # "none" => r["created_by"] = o["created_by"]
                  /\ (\A o \in before : o["created_by"].kind = "none")
                        => r["created_by"] = system
            /\ txn' \ after = txn \ before]_vars

\* C1 witness: the loop has just replaced a record that another user created.
C1_Witness ==
    /\ pc = "Writing"
    /\ i > 1
    /\ ~RowFails(batch[i - 1])
    /\ \E o \in store0 :
          /\ o["order_id"] = batch[i - 1]["order_id"]
          /\ o["created_by"] = alice
    /\ \E r \in txn :
          /\ r["order_id"] = batch[i - 1]["order_id"]
          /\ r["created_by"] = alice
          /\ r["updated_at"] = batch[i - 1]["updated_at"]

\* The digits of a timestamp, compared as the strings compare.
RECURSIVE SeqLess(_, _)
SeqLess(a, b) ==
    IF a = <<>> THEN b # <<>>
    ELSE IF b = <<>> THEN FALSE
    ELSE LET DigitOf(ch) == CHOOSE d \in 0..10 : IF d = 10 THEN \A e \in 0..9 : Digits[e + 1] # ch
                                                  ELSE Digits[d + 1] = ch
         IN  IF Head(a) = Head(b) THEN SeqLess(Tail(a), Tail(b))
             ELSE DigitOf(Head(a)) < DigitOf(Head(b))

SameRows(a, b) ==
    /\ Len(a) = Len(b)
    /\ \A k \in 1..Len(a) : \A c \in ExpectedSet : a[k][c] = b[k][c]

\* The Writer has run a second time, on the rows it was given the first time.
SecondWrite == WriteStageEnded /\ prevWritten /\ SameRows(batch, prevBatch)

WrittenIds == {successful_transfers[k] : k \in 1..Len(successful_transfers)}

\* C2 as stated: after the second of two runs of the Writer on an identical
\* batch the store holds one record per identifier, each written record has
\* the created_by it had after the first run and a later updated_at.
C2_Original ==
    SecondWrite =>
        /\ \A r \in store : Cardinality(WithId(store, r["order_id"])) = 1
        /\ \A id \in WrittenIds :
              \E r \in store, r0 \in store0 :
                  /\ r["order_id"] = id
                  /\ r0["order_id"] = id
                  /\ r["created_by"] = r0["created_by"]
                  /\ SeqLess(r0["updated_at"].s, r["updated_at"].s)

\* C2 as amended: after the second run the store holds one record per
\* identifier, each written record has the created_by it had after the first
\* run and the timestamp its batch carries; when the second batch carries the
\* timestamp of the first, the store is what the first run left.
C2_Idempotent ==
    SecondWrite =>
        /\ \A r \in store : Cardinality(WithId(store, r["order_id"])) = 1
        /\ \A id \in WrittenIds :
              \E r \in store, r0 \in store0 :
                  /\ r["order_id"] = id
                  /\ r0["order_id"] = id
                  /\ r["created_by"] = r0["created_by"]
                  /\ r["updated_at"] = batch[1]["updated_at"]
        /\ batch = prevBatch => store = store0

\* C2 witness: a second run wrote a record again, with a later timestamp.
C2_Witness ==
    /\ SecondWrite
    /\ batch # prevBatch
    /\ \E r \in store : r["order_id"] \in WrittenIds /\ r["created_by"] = alice

\* The last row of the batch with the order_id of row k that did not fail.
LastWritten(k) ==
    CHOOSE j \in 1..Len(batch) :
        /\ batch[j]["order_id"] = batch[k]["order_id"]
        /\ ~RowFails(batch[j])
        /\ \A m \in (j + 1)..Len(batch) :
              batch[m]["order_id"] = batch[k]["order_id"] => RowFails(batch[m])

\* C3: when the write stage ends, every row was processed; each row the
\* database refused is recorded as failed under its identifier; each other
\* row is in the store (as the last row written under its identifier has it),
\* whether it came before or after a failing row.
C3_RowFailureIsolated ==
    WriteStageEnded =>
        /\ i = Len(batch) + 1
        /\ \A k \in 1..Len(batch) :
              IF RowFails(batch[k])
              THEN batch[k]["order_id"] \in DOMAIN failed_transfers
              ELSE /\ batch[k]["order_id"] \in WrittenIds
                   /\ \E r \in store :
                         \A c \in BatchColumns : r[c] = batch[LastWritten(k)][c]

\* C3 witness: the first row failed and the row after it is in the store.
C3_Witness ==
    /\ pc = "Written"
    /\ Len(batch) >= 2
    /\ RowFails(batch[1])
    /\ ~RowFails(batch[2])
    /\ batch[1]["order_id"] # batch[2]["order_id"]
    /\ \E r \in store : \A c \in BatchColumns : r[c] = batch[2][c]

LoadAttempted == pc \notin {"Start", "FileCheck", "AbortedFileNotFound", "Loaded"}

\* C4: a table that, its Unnamed columns dropped, lacks an expected column
\* makes the load raise a KeyError naming each absent expected column once and
\* nothing else; a table with all six does not raise it.
C4_MissingColumns ==
    LoadAttempted =>
        LET absent == ExpectedSet \ {c \in file.columns : c # "Unnamed: 0"}
        IN  /\ (pc = "AbortedMissingColumns") <=> (absent # {})
            /\ pc = "AbortedMissingColumns" =>
                  /\ raised
                  /\ {error[k] : k \in 1..Len(error)} = absent
                  /\ Len(error) = Cardinality(absent)
            /\ absent = {} => error = <<>>

\* C4 witness: a load aborted on a table lacking several expected columns and
\* carrying an Unnamed one.
C4_Witness ==
    /\ pc = "AbortedMissingColumns"
    /\ Len(error) >= 2
    /\ "Unnamed: 0" \in file.columns

\* An identifier that is a string whose first characters after any leading
\* blanks are O and R in either case.
Conforms(cell) ==
    /\ cell.kind = "str"
    /\ \E j \in 1..(Len(cell.s) - 1) :
          /\ \A m \in 1..(j - 1) : cell.s[m] = " "
          /\ cell.s[j] \in {"O", "o"}
          /\ cell.s[j + 1] \in {"R", "r"}

ConformingRow(row) == Conforms(row["order_id"])

Validated == pc \in {"Validated", "Writing", "Written", "EmptyBatchSkip", "Done", "AbortedStore"}

\* C5: the Validator keeps exactly the rows with a conforming order_id, in
\* their order; the number it reports as excluded is the number of the other
\* rows; rejecting rows does not abort the load.
C5_ValidatorFilters ==
    Validated =>
        LET kept == SelectSeq(df, ConformingRow)
        IN  /\ Len(batch) = Len(kept)
            /\ invalidCount = Len(df) - Len(kept)
            /\ \A k \in 1..Len(batch) :
                  /\ batch[k]["order_id"] = kept[k]["order_id"]
                  /\ \A c \in ExpectedSet : batch[k][c] \in {kept[k][c], None}
            /\ pc = "Validated" => ~raised

\* C5 witness: a row was rejected and a row with a padded lower-case
\* identifier was kept.
C5_Witness ==
    /\ pc = "Validated"
    /\ invalidCount >= 1
    /\ Len(batch) >= 1
    /\ batch[1]["order_id"] = Str(or2)

IsBlank(cell) ==
    \/ cell.kind \in {"nan", "none"}
    \/ cell.kind = "str" /\ \A k \in 1..Len(cell.s) : cell.s[k] = " "

\* YYYY-MM-DD HH:MM:SS
MatchesFormat(ts) ==
    /\ Len(ts) = 19
    /\ \A k \in 1..Len(ts) :
          IF k \in {5, 8} THEN ts[k] = "-"
          ELSE IF k = 11 THEN ts[k] = " "
          ELSE IF k \in {14, 17} THEN ts[k] = ":"
          ELSE \E d \in 1..10 : Digits[d] = ts[k]

\* C6: in every surviving row every blank-string or absent cell of the six
\* columns is None, every other cell is as it was read, and the row carries a
\* string timestamp of the fixed format.
C6_CleanedAndStamped ==
    Validated =>
        LET kept == SelectSeq(df, ConformingRow)
        IN  \A k \in 1..Len(batch) :
              /\ \A c \in ExpectedSet :
                    IF IsBlank(kept[k][c]) THEN batch[k][c] = None
                    ELSE batch[k][c] = kept[k][c]
              /\ batch[k]["updated_at"].kind = "str"
              /\ MatchesFormat(batch[k]["updated_at"].s)

Stage == IF pc = "Writing" THEN "Validated" ELSE pc

StatedEdges ==
    { <<"Start", "FileCheck">>,
      <<"FileCheck", "AbortedFileNotFound">>, <<"FileCheck", "Loaded">>,
      <<"Loaded", "AbortedMissingColumns">>, <<"Loaded", "Validated">>,
      <<"Validated", "EmptyBatchSkip">>, <<"Validated", "Written">>,
      <<"EmptyBatchSkip", "Done">>, <<"Written", "Done">> }

\* What holds of the stage a step of a run arrives in.
StageRules ==
    /\ ~file.exists /\ pc \notin {"Start", "FileCheck"} =>
          pc = "AbortedFileNotFound"
    /\ pc = "AbortedFileNotFound" => ~file.exists /\ ~raised
    /\ pc = "AbortedMissingColumns" => raised
    /\ pc \in {"AbortedFileNotFound", "AbortedMissingColumns"} =>
          conn = "none" /\ store = store0
    /\ pc \in {"Start", "FileCheck", "Loaded", "Validated"} =>
          conn = "none" /\ store = store0
    /\ store # store0 => pc \in {"Written", "Done"}

C8_ConnectionReleased == pc \in Terminal => conn # "open"

\* C9: when no row of the loaded table has a conforming identifier, the
\* batch is empty and the Writer returns without raising, reports zero
\* records written, opens no connection and leaves the store as it was.
C9_EmptyBatchNoOp ==
    (Validated /\ \A k \in 1..Len(df) : ~Conforms(df[k]["order_id"])) =>
        /\ pc \in {"Validated", "EmptyBatchSkip", "Done"}
        /\ batch = <<>>
        /\ ~raised
        /\ conn = "none"
        /\ store = store0
        /\ successful_transfers = <<>>
        /\ pc # "Validated" => summary = [kind |-> "empty", succeeded |-> 0, failed |-> 0]

\* C9 witness: every row of a table was rejected and the run is done.
C9_Witness == pc = "Done" /\ summary.kind = "empty" /\ Len(df) = MaxRows

\* C10: when the write stage completes, the succeeded count and the failed
\* count the summary reports add up to the number of rows of the batch.
C10_SummaryAccounts ==
    WriteStageEnded => summary.succeeded + summary.failed = Len(batch)

====
